---------------------------- MODULE Spec2Model ----------------------------
(***************************************************************************)
(* A model of replace_links.py: a batch tool that loads two line lists     *)
(* (links.txt, redirects.txt), zips them into an ordered mapping, walks    *)
(* the working directory top-down and rewrites every text file in which    *)
(* one of the original strings occurs.                                     *)
(*                                                                         *)
(* Text is a sequence of one-character strings.  The file system is a      *)
(* function from paths (sequences of path components) to a kind and the    *)
(* file's data.                                                            *)
(***************************************************************************)
EXTENDS Integers, Sequences, FiniteSets, TLC

\* ------------------------------------------------------------------ bounds
\* Longest content of a candidate file.
MaxLen == 3
\* Most lines of a list file.
MaxPairs == 2
\* How many times the tool is invoked in a row.
MaxRuns == 2

\* ----------------------------------------------------------- configuration
WEBSITE_FOLDER == <<".">>
ORIGINAL_LINKS_FILE == <<"links.txt">>
REDIRECT_LINKS_FILE == <<"redirects.txt">>
SCRIPT_FILE == <<"replace_links.py">>

\* A variant of abspath that keeps a leading "." component.
abspathUnnormalised(p) == <<"cwd">> \o p

\* os.path.abspath of a path relative to the working directory: a leading
\* "." component is dropped and the working directory prepended.
abspath(p) ==
    IF p # <<>> /\ Head(p) = "." THEN <<"cwd">> \o Tail(p) ELSE <<"cwd">> \o p

THIS_SCRIPT_NAME == abspath(SCRIPT_FILE)
ORIG_LINKS_PATH == abspath(ORIGINAL_LINKS_FILE)
REDI_LINKS_PATH == abspath(REDIRECT_LINKS_FILE)
FILES_TO_SKIP == {THIS_SCRIPT_NAME, ORIG_LINKS_PATH, REDI_LINKS_PATH}
DIRS_TO_SKIP == {".git", ".svn", "node_modules", "__pycache__"}

\* ------------------------------------------------------------------ paths
\* os.path.join(root, filename)
join(root, filename) == root \o <<filename>>

ScriptPath == join(WEBSITE_FOLDER, "replace_links.py")
LinksPath == join(WEBSITE_FOLDER, "links.txt")
RedirectsPath == join(WEBSITE_FOLDER, "redirects.txt")
\* A candidate file of the root directory.
F1 == join(WEBSITE_FOLDER, "f1")
\* A candidate file of a subdirectory; its base name is that of a list file.
F2 == join(join(WEBSITE_FOLDER, "sub"), "links.txt")
\* A file below a pruned directory.
GitFile == join(join(WEBSITE_FOLDER, ".git"), "config")

Paths == {ScriptPath, LinksPath, RedirectsPath, F1, F2, GitFile}

\* ------------------------------------------------------------------- text
Whitespace == {" ", "\t", "\n", "\r"}

\* os.linesep of a POSIX system.
os_linesep == <<"\n">>

\* What a file opened in text mode for reading yields (newline=None): every
\* "\r\n" and every other "\r" is read as "\n".
RECURSIVE Decode(_)
Decode(data) ==
    IF data = <<>> THEN <<>>
    ELSE IF Head(data) = "\r"
    THEN IF Len(data) >= 2 /\ data[2] = "\n"
         THEN <<"\n">> \o Decode(SubSeq(data, 3, Len(data)))
         ELSE <<"\n">> \o Decode(Tail(data))
    ELSE <<Head(data)>> \o Decode(Tail(data))

\* What a file opened in text mode for writing stores (newline=None): every
\* "\n" is written as os.linesep.
RECURSIVE Encode(_)
Encode(content) ==
    IF content = <<>> THEN <<>>
    ELSE IF Head(content) = "\n" THEN os_linesep \o Encode(Tail(content))
    ELSE <<Head(content)>> \o Encode(Tail(content))

StrUpTo(A, n) == UNION {[1..k -> A] : k \in 0..n}

\* s[i:] with a 0-based start, as Python slices.
DropFirst(s, n) == SubSeq(s, n + 1, Len(s))

\* s.startswith(k)
StartsWith(s, k) == Len(k) <= Len(s) /\ SubSeq(s, 1, Len(k)) = k

\* `k in s`
Contains(s, k) ==
    \E i \in 0..(Len(s) - Len(k)) : SubSeq(s, i + 1, i + Len(k)) = k

\* A variant of StrCount that counts an original once however often it occurs.
StrCountPresence(s, k) ==
    IF \E i \in 0..(Len(s) - Len(k)) : SubSeq(s, i + 1, i + Len(k)) = k
    THEN 1 ELSE 0

\* s.count(k): the non-overlapping occurrences of k in s, found left to right.
\* An empty k is found between all characters.
RECURSIVE StrCount(_, _)
StrCount(s, k) ==
    IF k = <<>> THEN Len(s) + 1
    ELSE IF Len(s) < Len(k) THEN 0
    ELSE IF StartsWith(s, k) THEN 1 + StrCount(DropFirst(s, Len(k)), k)
    ELSE StrCount(Tail(s), k)

RECURSIVE InsertBefore(_, _)
InsertBefore(s, r) ==
    IF s = <<>> THEN r ELSE r \o <<Head(s)>> \o InsertBefore(Tail(s), r)

\* A variant of StrReplace that replaces the first occurrence only.
RECURSIVE StrReplaceFirst(_, _, _)
StrReplaceFirst(s, k, r) ==
    IF Len(s) < Len(k) \/ k = <<>> THEN s
    ELSE IF SubSeq(s, 1, Len(k)) = k THEN r \o SubSeq(s, Len(k) + 1, Len(s))
    ELSE <<Head(s)>> \o StrReplaceFirst(Tail(s), k, r)

\* s.replace(k, r): every non-overlapping occurrence of k, found left to
\* right, becomes r.
RECURSIVE StrReplace(_, _, _)
StrReplace(s, k, r) ==
    IF k = <<>> THEN InsertBefore(s, r)
    ELSE IF Len(s) < Len(k) THEN s
    ELSE IF StartsWith(s, k) THEN r \o StrReplace(DropFirst(s, Len(k)), k, r)
    ELSE <<Head(s)>> \o StrReplace(Tail(s), k, r)

RECURSIVE LStrip(_)
LStrip(s) == IF s # <<>> /\ Head(s) \in Whitespace THEN LStrip(Tail(s)) ELSE s

RECURSIVE RStrip(_)
RStrip(s) ==
    IF s # <<>> /\ s[Len(s)] \in Whitespace
    THEN RStrip(SubSeq(s, 1, Len(s) - 1)) ELSE s

\* line.strip()
strip(s) == RStrip(LStrip(s))

\* The lines a text file iterates over: each ends after its "\n"; the last
\* one may have none.
RECURSIVE FirstLineLen(_)
FirstLineLen(s) ==
    IF s = <<>> THEN 0
    ELSE IF Head(s) = "\n" THEN 1
    ELSE 1 + FirstLineLen(Tail(s))

RECURSIVE Lines(_)
Lines(s) ==
    IF s = <<>> THEN <<>>
    ELSE <<SubSeq(s, 1, FirstLineLen(s))>> \o Lines(DropFirst(s, FirstLineLen(s)))

\* [line.strip() for line in f if line.strip()]
RECURSIVE StrippedNonEmpty(_)
StrippedNonEmpty(ls) ==
    IF ls = <<>> THEN <<>>
    ELSE IF strip(Head(ls)) # <<>>
         THEN <<strip(Head(ls))>> \o StrippedNonEmpty(Tail(ls))
         ELSE StrippedNonEmpty(Tail(ls))

\* The data of a text file holding the given lines.
RECURSIVE Unlines(_)
Unlines(ls) ==
    IF ls = <<>> THEN <<>> ELSE Head(ls) \o <<"\n">> \o Unlines(Tail(ls))

Min(a, b) == IF a <= b THEN a ELSE b


\* ------------------------------------------------------------------ state
VARIABLES
    fs,                      \* path -> [kind, data]: the directory tree
    stdin,                   \* what input() will return, or "EOF"
    pc,                      \* where main() is
    exit_code,               \* the process's exit status, -1 while it runs
    original_links,          \* load_links_from_file(ORIGINAL_LINKS_FILE)
    new_links,               \* load_links_from_file(REDIRECT_LINKS_FILE)
    link_map,                \* the ordered dict, a sequence of [k, v]
    total_files_scanned,
    total_files_changed,
    total_replacements_made,
    todo,                    \* the files os.walk has yet to hand out, in order
    visited,                 \* the files os.walk has handed to the loop body
    out,                     \* what was printed: a set of [m, p, n]
    run,                     \* the number of the current invocation
    fs_start,                \* history: the tree when the current run began
    opened_w,                \* history: paths opened for writing, this run
    written                  \* history: paths whose write succeeded, this run

vars == <<fs, stdin, pc, exit_code, original_links, new_links, link_map,
          total_files_scanned, total_files_changed, total_replacements_made,
          todo, visited, out, run, fs_start, opened_w, written>>

Msg(m, p) == [m |-> m, p |-> p, n |-> <<>>]

\* ----------------------------------------------------------------- loader
\* The name open() resolves a relative file name to.
Resolve(filepath) == WEBSITE_FOLDER \o filepath

\* A variant of load_links_from_file that takes a missing file for an empty
\* list.
LoadMissingAsEmpty(f, filepath) ==
    LET file == f[Resolve(filepath)] IN
    IF file.kind = "missing"
    THEN [ok |-> TRUE, links |-> <<>>, err |-> ""]
    ELSE IF file.kind # "text"
    THEN [ok |-> FALSE, links |-> <<>>, err |-> "fatal_could_not_read"]
    ELSE [ok |-> TRUE, links |-> StrippedNonEmpty(Lines(Decode(file.data))),
          err |-> ""]

\* load_links_from_file: the stripped non-empty lines, or None (ok = FALSE)
\* with the error that was printed.
load_links_from_file(f, filepath) ==
    LET file == f[Resolve(filepath)] IN
    IF file.kind = "missing"
    THEN [ok |-> FALSE, links |-> <<>>, err |-> "fatal_not_found"]
    ELSE IF file.kind # "text"
    THEN [ok |-> FALSE, links |-> <<>>, err |-> "fatal_could_not_read"]
    ELSE [ok |-> TRUE, links |-> StrippedNonEmpty(Lines(Decode(file.data))),
          err |-> ""]

NotLoaded == [ok |-> FALSE, links |-> <<>>, err |-> ""]

\* zip(a, b): as long as the shorter of the two.
zip(a, b) == [i \in 1..Min(Len(a), Len(b)) |-> [k |-> a[i], v |-> b[i]]]

HasKey(d, k) == \E i \in 1..Len(d) : d[i].k = k

\* d[k] = v: a key already present keeps its position and takes the value.
DictSet(d, k, v) ==
    IF HasKey(d, k)
    THEN [i \in 1..Len(d) |-> IF d[i].k = k THEN [k |-> k, v |-> v] ELSE d[i]]
    ELSE Append(d, [k |-> k, v |-> v])

\* dict(pairs)
RECURSIVE DictFrom(_, _)
DictFrom(d, pairs) ==
    IF pairs = <<>> THEN d
    ELSE DictFrom(DictSet(d, Head(pairs).k, Head(pairs).v), Tail(pairs))

dict(pairs) == DictFrom(<<>>, pairs)

\* ----------------------------------------------------------------- walker
\* The directories a path lies in, below the root.
DirNames(p) == {p[i] : i \in 2..(Len(p) - 1)}

Pruned(p) == DirNames(p) \cap DIRS_TO_SKIP # {}

\* The files os.walk hands to the loop body.
Walked(f) == {p \in Paths : f[p].kind # "missing" /\ ~Pruned(p)}

\* The directory of q is a proper ancestor of the directory of p.
Above(q, p) ==
    /\ Len(q) < Len(p)
    /\ SubSeq(p, 1, Len(q) - 1) = SubSeq(q, 1, Len(q) - 1)

\* A position of each path in its directory's listing.
Rank(p) ==
    CASE p = ScriptPath -> 1
      [] p = LinksPath -> 2
      [] p = F1 -> 3
      [] p = RedirectsPath -> 4
      [] OTHER -> 5

\* topdown=True: a directory's files come before those of its subdirectories;
\* within a directory the listing is by rank, ascending or descending.
Before(q, p, asc) ==
    \/ Above(q, p)
    \/ /\ ~Above(p, q)
       /\ IF asc THEN Rank(q) < Rank(p) ELSE Rank(q) > Rank(p)

RECURSIVE Listing(_, _)
Listing(S, asc) ==
    IF S = {} THEN <<>>
    ELSE LET first == CHOOSE p \in S : \A q \in S \ {p} : Before(p, q, asc)
         IN <<first>> \o Listing(S \ {first}, asc)

\* The orders in which os.walk may hand out the files.
WalkOrders(f) == {Listing(Walked(f), asc) : asc \in BOOLEAN}

\* --------------------------------------------------------------- rewriter
\* A variant of ReadOutcome without the UnicodeDecodeError case.
ReadOutcomeNoDecodeCase(file) ==
    IF file.kind = "text" THEN "ok" ELSE "error"

\* open(file_path, "r", encoding="utf-8").read()
ReadOutcome(file) ==
    CASE file.kind = "text" -> "ok"
      [] file.kind = "binary" -> "unicode_decode_error"
      [] OTHER -> "error"

\* The replacement loop: each pair in the dict's order, on the running buffer.
RECURSIVE Replacements(_, _)
Replacements(content, lm) ==
    IF lm = <<>>
    THEN [new_content |-> content, count |-> 0, file_was_changed |-> FALSE]
    ELSE LET original_link == Head(lm).k
             new_link == Head(lm).v
             found == Contains(content, original_link)
             rest == Replacements(
                        IF found THEN StrReplace(content, original_link, new_link)
                        ELSE content,
                        Tail(lm))
         IN [new_content |-> rest.new_content,
             count |-> (IF found THEN StrCount(content, original_link) ELSE 0)
                        + rest.count,
             file_was_changed |-> found \/ rest.file_was_changed]

\* A variant of WritesBack that writes every file that was read.
WritesBackAlways(r) == TRUE

\* `if file_was_changed:`
WritesBack(r) == r.file_was_changed

\* How an attempt to write a file back may end.
WriteOutcomes == {"ok", "open_fails", "write_fails"}

\* A variant of ChangedAfter that counts the file before the write is tried.
ChangedAfterCountsAttempt(n, outcome) == n + 1

\* total_files_changed after the write attempt.
ChangedAfter(n, outcome) == IF outcome = "ok" THEN n + 1 ELSE n

\* A variant of FileAfter that writes the content that was read.
FileAfterWritesOld(file, new_content, outcome, n) ==
    IF outcome = "write_fails" THEN [file EXCEPT !.data = SubSeq(file.data, 1, 0)]
    ELSE file

\* The file after the write attempt: open(.., "w") truncates, so a write that
\* fails after it leaves some prefix of what was to be stored.
FileAfter(file, new_content, outcome, n) ==
    CASE outcome = "ok" -> [file EXCEPT !.data = Encode(new_content)]
      [] outcome = "open_fails" -> file
      [] OTHER -> [file EXCEPT !.data = SubSeq(Encode(new_content), 1, n)]

\* ----------------------------------------------------------------- inputs
\* The original and the replacement strings of the exhaustive input family:
\* a replacement may hold an original, complete one with the text around it,
\* or share no character with any of them.
Keys == {<<"a">>, <<"b">>, <<"a", "b">>}
Reps == {<<"b">>, <<"c">>}
Contents == StrUpTo({"a", "b"}, MaxLen)

Text(data) == [kind |-> "text", data |-> data]
Absent == [kind |-> "missing", data |-> <<>>]
\* A file that is no UTF-8 text ("binary") or cannot be opened ("unreadable").
Unreadable(kind) == [kind |-> kind, data |-> <<"a">>]

Tree(script, links, redirects, f1, f2) ==
    [p \in Paths |->
        CASE p = ScriptPath -> script
          [] p = LinksPath -> links
          [] p = RedirectsPath -> redirects
          [] p = F1 -> f1
          [] p = F2 -> f2
          [] OTHER -> Text(<<"a", "b">>)]

\* Well-formed lists of equal length, every original, replacement and content
\* up to the bounds; one candidate file; the script lies outside the tree.
RewriteTrees ==
    UNION {
        {Tree(Absent, Text(Unlines(ks)), Text(Unlines(rs)), Text(c), Absent) :
            ks \in [1..n -> Keys], rs \in [1..n -> Reps], c \in Contents} :
        n \in 0..MaxPairs}

\* Raw lines with surrounding whitespace and blank lines; an original may
\* repeat, and a replacement may equal its original.  Unlines ends each with
\* "\n", so a line ending in "\r" ends in "\r\n".
RawOriginals == {<<" ", "a">>, <<"b", "\r">>, <<" ">>}
RawRedirects == {<<"a">>, <<"c", " ">>}

ListFiles(raw) ==
    {Absent, Unreadable("unreadable")}
    \cup {Text(Unlines(ls)) : ls \in StrUpTo(raw, MaxPairs)}

\* Every state of the two list files, and two candidate files of every kind.
ControlTrees ==
    {Tree(Text(<<"a", "b">>), l, r, f1, f2) :
        l \in ListFiles(RawOriginals), r \in ListFiles(RawRedirects),
        f1 \in {Text(<<"a", "b">>), Text(<<"a", "\r", "\n", "b">>),
                Unreadable("binary"), Unreadable("unreadable")},
        f2 \in {Text(<<"b", "a", "b">>), Unreadable("binary"), Unreadable("unreadable")}}

Stdins == {"CONTINUE", "no", "EOF"}

\* Whether main() will call input(): both lists load and their lengths differ.
AsksUser(f) ==
    LET o == load_links_from_file(f, ORIGINAL_LINKS_FILE)
        n == load_links_from_file(f, REDIRECT_LINKS_FILE)
    IN o.ok /\ n.ok /\ Len(o.links) # Len(n.links)

Init ==
    /\ fs \in RewriteTrees \cup ControlTrees
    /\ stdin \in Stdins
    /\ AsksUser(fs) \/ stdin = "EOF"
    /\ pc = "start"
    /\ exit_code = -1
    /\ original_links = NotLoaded
    /\ new_links = NotLoaded
    /\ link_map = <<>>
    /\ total_files_scanned = 0
    /\ total_files_changed = 0
    /\ total_replacements_made = 0
    /\ todo = <<>>
    /\ visited = {}
    /\ out = {}
    /\ run = 1
    /\ fs_start = fs
    /\ opened_w = {}
    /\ written = {}

\* ---------------------------------------------------------------- actions
Exit(code) == pc' = "exited" /\ exit_code' = code

\* main, lines 48-59: load both lists; exit 1 when either is None.
Load ==
    /\ pc = "start"
    /\ LET o == load_links_from_file(fs, ORIGINAL_LINKS_FILE)
           n == load_links_from_file(fs, REDIRECT_LINKS_FILE)
           fatal == (IF o.ok THEN {} ELSE {Msg(o.err, Resolve(ORIGINAL_LINKS_FILE))})
                    \cup (IF n.ok THEN {} ELSE {Msg(n.err, Resolve(REDIRECT_LINKS_FILE))})
       IN /\ original_links' = o
          /\ new_links' = n
          /\ IF ~o.ok \/ ~n.ok
             THEN /\ out' = out \cup {Msg("starting", <<>>)} \cup fatal
                                \cup {Msg("could_not_be_read_exiting", <<>>)}
                  /\ Exit(1)
             ELSE /\ out' = out \cup {Msg("starting", <<>>), Msg("loaded", <<>>)}
                  /\ pc' = "check"
                  /\ UNCHANGED exit_code
    /\ UNCHANGED <<fs, stdin, link_map, total_files_scanned, total_files_changed,
                   total_replacements_made, todo, visited, run, fs_start, opened_w,
                   written>>

\* main, lines 62-81: lists of different lengths need the user's CONTINUE.
CheckLengths ==
    /\ pc = "check"
    /\ IF Len(original_links.links) = Len(new_links.links)
       THEN /\ pc' = "map"
            /\ UNCHANGED <<out, exit_code>>
       ELSE CASE stdin = "EOF" ->
                    /\ out' = out \cup {Msg("warning_mismatch", <<>>),
                                        Msg("aborting_non_interactive", <<>>)}
                    /\ Exit(1)
              [] stdin = "CONTINUE" ->
                    /\ out' = out \cup {Msg("warning_mismatch", <<>>)}
                    /\ pc' = "map"
                    /\ UNCHANGED exit_code
              [] OTHER ->
                    /\ out' = out \cup {Msg("warning_mismatch", <<>>),
                                        Msg("aborted_by_user", <<>>)}
                    /\ Exit(0)
    /\ UNCHANGED <<fs, stdin, original_links, new_links, link_map,
                   total_files_scanned, total_files_changed,
                   total_replacements_made, todo, visited, run, fs_start, opened_w,
                   written>>

\* main, lines 83-95: build the dict; exit 0 when it is empty; zero the counters.
BuildMap ==
    /\ pc = "map"
    /\ link_map' = dict(zip(original_links.links, new_links.links))
    /\ IF link_map' = <<>>
       THEN /\ out' = out \cup {Msg("empty_nothing_to_replace", <<>>)}
            /\ Exit(0)
            /\ todo' = <<>>
       ELSE /\ out' = out \cup {Msg("created_map", <<>>)}
            /\ pc' = "walk"
            /\ todo' \in WalkOrders(fs)
            /\ UNCHANGED exit_code
    /\ total_files_scanned' = 0
    /\ total_files_changed' = 0
    /\ total_replacements_made' = 0
    /\ UNCHANGED <<fs, stdin, original_links, new_links, visited, run, fs_start,
                   opened_w, written>>

\* The loop body, lines 101-109: a file of FILES_TO_SKIP.
SkipSource(p) ==
    /\ pc = "walk"
    /\ todo # <<>> /\ p = Head(todo)
    /\ abspath(p) \in FILES_TO_SKIP
    /\ todo' = Tail(todo)
    /\ visited' = visited \cup {p}
    /\ out' = out \cup {Msg("skipping_source_file", p)}
    /\ UNCHANGED <<fs, stdin, pc, exit_code, original_links, new_links, link_map,
                   total_files_scanned, total_files_changed,
                   total_replacements_made, run, fs_start, opened_w, written>>

\* The loop body, lines 101-127: a file that cannot be read.
ReadFails(p) ==
    /\ pc = "walk"
    /\ todo # <<>> /\ p = Head(todo)
    /\ abspath(p) \notin FILES_TO_SKIP
    /\ ReadOutcome(fs[p]) # "ok"
    /\ todo' = Tail(todo)
    /\ visited' = visited \cup {p}
    /\ total_files_scanned' = total_files_scanned + 1
    /\ out' = out \cup {IF ReadOutcome(fs[p]) = "unicode_decode_error"
                        THEN Msg("skipping_binary_file", p)
                        ELSE Msg("error_reading", p)}
    /\ UNCHANGED <<fs, stdin, pc, exit_code, original_links, new_links, link_map,
                   total_files_changed, total_replacements_made, run, fs_start,
                   opened_w, written>>

\* The loop body, lines 101-149: a file that is read, rewritten in memory and,
\* when a pair matched, written back.
Rewrite(p) ==
    /\ pc = "walk"
    /\ todo # <<>> /\ p = Head(todo)
    /\ abspath(p) \notin FILES_TO_SKIP
    /\ ReadOutcome(fs[p]) = "ok"
    /\ todo' = Tail(todo)
    /\ visited' = visited \cup {p}
    /\ total_files_scanned' = total_files_scanned + 1
    /\ LET r == Replacements(Decode(fs[p].data), link_map) IN
       /\ total_replacements_made' = total_replacements_made + r.count
       /\ IF WritesBack(r)
          THEN \E outcome \in WriteOutcomes, n \in 0..Len(Encode(r.new_content)) :
                 /\ fs' = [fs EXCEPT ![p] = FileAfter(fs[p], r.new_content, outcome, n)]
                 /\ opened_w' = opened_w \cup {p}
                 /\ total_files_changed' = ChangedAfter(total_files_changed, outcome)
                 /\ written' = IF outcome = "ok" THEN written \cup {p} ELSE written
                 /\ out' = out \cup {IF outcome = "ok" THEN Msg("replaced_links_in", p)
                                     ELSE Msg("error_writing", p)}
          ELSE UNCHANGED <<fs, opened_w, total_files_changed, written, out>>
    /\ UNCHANGED <<stdin, pc, exit_code, original_links, new_links, link_map,
                   run, fs_start>>

\* A variant of Report that ends the run without the report.
ReportNothing ==
    /\ pc = "walk"
    /\ todo = <<>>
    /\ pc' = "exited" /\ exit_code' = 0
    /\ UNCHANGED <<fs, stdin, original_links, new_links, link_map,
                   total_files_scanned, total_files_changed,
                   total_replacements_made, todo, visited, out, run, fs_start,
                   opened_w, written>>

\* The final report's three lines: scanned, modified, replacements.
Summary(scanned, changed, replacements) ==
    [m |-> "summary", p |-> <<>>, n |-> <<scanned, changed, replacements>>]

\* main, lines 151-157: the final report, after the walk.
Report ==
    /\ pc = "walk"
    /\ todo = <<>>
    /\ out' = out \cup {Summary(total_files_scanned, total_files_changed,
                                total_replacements_made)}
    /\ Exit(0)
    /\ UNCHANGED <<fs, stdin, original_links, new_links, link_map,
                   total_files_scanned, total_files_changed,
                   total_replacements_made, todo, visited, run, fs_start, opened_w,
                   written>>

\* What a run prints when something went wrong with a file.
ErrorMsgs == {"error_reading", "error_writing"}

\* The tool is run again, right after a successful run: one that ended with
\* status 0 and reported no error.
Rerun ==
    /\ pc = "exited"
    /\ exit_code = 0
    /\ \A e \in out : e.m \notin ErrorMsgs
    /\ run < MaxRuns
    /\ run' = run + 1
    /\ pc' = "start"
    /\ exit_code' = -1
    /\ original_links' = NotLoaded
    /\ new_links' = NotLoaded
    /\ link_map' = <<>>
    /\ total_files_scanned' = 0
    /\ total_files_changed' = 0
    /\ total_replacements_made' = 0
    /\ todo' = <<>>
    /\ visited' = {}
    /\ out' = {}
    /\ fs_start' = fs
    /\ written' = {}
    /\ opened_w' = {}
    /\ UNCHANGED <<fs, stdin>>

Next ==
    \/ Load
    \/ CheckLengths
    \/ BuildMap
    \/ \E p \in Paths : SkipSource(p)
    \/ \E p \in Paths : ReadFails(p)
    \/ \E p \in Paths : Rewrite(p)
    \/ Report
    \/ Rerun

Spec == Init /\ [][Next]_vars

\* ------------------------------------------------------------ properties
\* The three files the tool must leave alone, as the walk names them.
ExcludedFiles == {ScriptPath, LinksPath, RedirectsPath}

\* The files of the tree that are neither excluded nor below a pruned directory.
Candidates == {p \in Paths : fs[p].kind # "missing"
                             /\ p \notin ExcludedFiles
                             /\ p # GitFile}

Printed(m, p) == \E e \in out : e.m = m /\ e.p = p

SummaryPrinted == \E e \in out : e.m = "summary"

Chars(s) == {s[i] : i \in 1..Len(s)}

MapKeys == {link_map[i].k : i \in 1..Len(link_map)}

\* The lists have the same length and no original is listed twice.
WellFormedLists ==
    /\ original_links.ok /\ new_links.ok
    /\ Len(original_links.links) = Len(new_links.links)
    /\ \A i, j \in 1..Len(original_links.links) :
          original_links.links[i] = original_links.links[j] => i = j

\* One pass over the text: at each position the first pair whose original
\* starts there is replaced by its replacement, any other character is kept.
RECURSIVE Simultaneous(_, _)
Simultaneous(s, lm) ==
    IF s = <<>> THEN <<>>
    ELSE LET hits == {i \in 1..Len(lm) : StartsWith(s, lm[i].k)} IN
         IF hits = {} THEN <<Head(s)>> \o Simultaneous(Tail(s), lm)
         ELSE LET i == CHOOSE h \in hits : \A g \in hits : h <= g
              IN lm[i].v \o Simultaneous(DropFirst(s, Len(lm[i].k)), lm)

\* The positions where k occurs in s.
Occurrences(s, k) ==
    {i \in 1..(Len(s) - Len(k) + 1) : SubSeq(s, i, i + Len(k) - 1) = k}

\* No occurrence of one original overlaps an occurrence of another one in s.
NoOverlap(s, lm) ==
    \A i, j \in 1..Len(lm) :
       i # j =>
          \A a \in Occurrences(s, lm[i].k), b \in Occurrences(s, lm[j].k) :
             a + Len(lm[i].k) <= b \/ b + Len(lm[j].k) <= a

\* No character of an original is a character of a replacement.
CharDisjoint(lm) ==
    \A i, j \in 1..Len(lm) : Chars(lm[i].k) \cap Chars(lm[j].v) = {}

\* No original is a substring of a replacement.
NoKeyInReplacement(lm) ==
    \A i, j \in 1..Len(lm) : ~Contains(lm[j].v, lm[i].k)

\* The run walked the whole tree and ended.
WalkCompleted == pc = "exited" /\ SummaryPrinted

C2_SecondRunIdle ==
    (run = 2 /\ pc \in {"walk", "exited"} /\ NoKeyInReplacement(link_map)) =>
        /\ total_replacements_made = 0
        /\ total_files_changed = 0
        /\ fs = fs_start

\* C2, amended: the same when no original shares a character with a
\* replacement.
C2_SecondRunIdleWhenDisjoint ==
    (run = 2 /\ pc \in {"walk", "exited"} /\ CharDisjoint(link_map)) =>
        /\ total_replacements_made = 0
        /\ total_files_changed = 0
        /\ fs = fs_start

\* The second run completed its walk over a file the first run rewrote.
C2_Witness ==
    /\ run = 2 /\ WalkCompleted /\ CharDisjoint(link_map)
    /\ "c" \in Chars(fs[F1].data)
    /\ F1 \in visited

\* C3: the script, links.txt and redirects.txt are never opened for writing,
\* never change, are never counted as scanned, and are reported as skipped
\* and nothing else when the walk meets them.
C3_ExcludedNeverTouched ==
    /\ \A p \in ExcludedFiles :
          /\ p \notin opened_w
          /\ fs[p] = fs_start[p]
          /\ p \in visited =>
                \A e \in out : e.p = p => e.m = "skipping_source_file"
          /\ p \in visited => Printed("skipping_source_file", p)
    /\ total_files_scanned = Cardinality(visited \ ExcludedFiles)

\* The walk met the three excluded files, which hold an original, and ended.
C3_Witness ==
    /\ WalkCompleted
    /\ ExcludedFiles \subseteq visited
    /\ \E k \in MapKeys : Contains(fs[ScriptPath].data, k)
    /\ \E k \in MapKeys : Contains(fs[LinksPath].data, k)
    /\ total_files_changed > 0

\* C4: the step that handles a candidate text file holding none of the
\* originals leaves the file as it is, does not open it for writing and adds
\* nothing to the files-modified and total-substitutions counters.
C4_UnmatchedFileUntouched ==
    [][\A p \in Candidates :
          (/\ p \notin visited /\ p \in visited'
           /\ fs[p].kind = "text"
           /\ \A k \in MapKeys : ~Contains(fs[p].data, k)) =>
              /\ fs'[p] = fs[p]
              /\ p \notin opened_w'
              /\ total_files_changed' = total_files_changed
              /\ total_replacements_made' = total_replacements_made]_vars

\* A candidate text file without any original was scanned under a mapping
\* that is not empty.
C4_Witness ==
    /\ pc = "walk" /\ link_map # <<>>
    /\ F1 \in visited /\ fs_start[F1].kind = "text"
    /\ fs_start[F1].data # <<>>
    /\ \A k \in MapKeys : ~Contains(fs_start[F1].data, k)

\* A list file is missing or unreadable, or the lists differ in length and
\* stdin is at its end.
FatalConfiguration ==
    \/ fs[LinksPath].kind # "text"
    \/ fs[RedirectsPath].kind # "text"
    \/ /\ original_links.ok /\ new_links.ok
       /\ Len(original_links.links) # Len(new_links.links)
       /\ stdin = "EOF"

\* C5: on a fatal configuration the run never reaches the walk, scans and
\* writes nothing, and its exit status is not zero.
C5_FatalExitsUntouched ==
    FatalConfiguration =>
        /\ pc # "walk"
        /\ visited = {} /\ opened_w = {} /\ total_files_scanned = 0
        /\ fs = fs_start
        /\ pc = "exited" => exit_code # 0

\* Two originals and one replacement, no input: the run has ended, and a
\* candidate file holds an original.
C5_Witness ==
    /\ pc = "exited" /\ exit_code = 1 /\ stdin = "EOF"
    /\ Len(original_links.links) = 2 /\ Len(new_links.links) = 1
    /\ fs[F1].kind = "text"
    /\ Contains(fs[F1].data, original_links.links[1])

\* Every file the walk hands out.
AllWalked == {p \in Paths : fs[p].kind # "missing" /\ p # GitFile}

\* C6: a file that is no text is reported as a binary skip, a file that fails
\* to read is reported as an error; neither is written; the walk is not cut
\* short by it: every file not yet handled stays due, and the run ends only
\* with every file handled and the summary printed.
C6_ReadFailuresIsolated ==
    /\ \A p \in Candidates \cap visited :
          /\ fs[p].kind = "binary" =>
                /\ Printed("skipping_binary_file", p)
                /\ ~Printed("error_reading", p)
          /\ fs[p].kind = "unreadable" =>
                /\ Printed("error_reading", p)
                /\ ~Printed("skipping_binary_file", p)
          /\ fs[p].kind # "text" => fs[p] = fs_start[p] /\ p \notin opened_w
    /\ pc = "walk" => visited \cup {todo[i] : i \in 1..Len(todo)} = AllWalked
    /\ (pc = "exited" /\ visited # {}) =>
          visited = AllWalked /\ SummaryPrinted

\* A file failed to read, a later file was rewritten, and the run ended.
C6_Witness ==
    /\ WalkCompleted
    /\ fs[F1].kind = "unreadable" /\ Printed("error_reading", F1)
    /\ F2 \in written

\* C7: a failed write is reported and not counted, the walk goes on, and the
\* files-modified counter is the number of files whose write succeeded.
C7_FailedWriteNotCounted ==
    /\ total_files_changed = Cardinality(written)
    /\ \A p \in Paths :
          /\ Printed("error_writing", p) <=> (p \in opened_w /\ p \notin written)
          /\ Printed("replaced_links_in", p) <=> p \in written
    /\ (pc = "exited" /\ \E p \in Paths : Printed("error_writing", p)) =>
          visited = AllWalked /\ SummaryPrinted

\* The write of the first file failed, the second was rewritten, the run ended.
C7_Witness ==
    /\ WalkCompleted
    /\ Printed("error_writing", F1)
    /\ F2 \in written
    /\ total_files_changed = 1

\* C8 as stated: a file is written back exactly when the content the pairs
\* produce differs from the content that was read.
C8_WrittenIffDiffers ==
    \A p \in Candidates \cap visited :
        fs_start[p].kind = "text" =>
            (p \in opened_w
                <=> Replacements(Decode(fs_start[p].data), link_map).new_content
                       # Decode(fs_start[p].data))

\* C9 as stated: every run that ends with status 0 has printed the summary.
C9_SummaryOnEveryExitZero ==
    (pc = "exited" /\ exit_code = 0) => SummaryPrinted

\* C9, amended: a run that ends with status 0 has printed the summary, with
\* the three counters, exactly when it walked the tree: not when the mapping
\* was empty and not when the user declined to continue.
C9_SummaryAfterWalk ==
    /\ (pc = "exited" /\ exit_code = 0) =>
          (SummaryPrinted
             <=> ~(Printed("empty_nothing_to_replace", <<>>)
                   \/ Printed("aborted_by_user", <<>>)))
    /\ SummaryPrinted =>
          /\ pc = "exited" /\ exit_code = 0
          /\ \A e \in out :
                e.m = "summary" =>
                   e.n = <<total_files_scanned, total_files_changed,
                           total_replacements_made>>

\* A walk over two scanned files, one of them rewritten, ended with the summary.
C9_Witness ==
    /\ pc = "exited" /\ exit_code = 0 /\ SummaryPrinted
    /\ total_files_scanned = 2
    /\ total_files_changed = 1
    /\ total_replacements_made > 0

\* The occurrences of k in s that a left-to-right scan without overlap
\* selects: every occurrence is selected or overlapped by an earlier selected
\* one, and no selected one is.
Selected(s, k) ==
    CHOOSE P \in SUBSET Occurrences(s, k) :
        \A q \in Occurrences(s, k) :
            (q \in P) <=> ~\E a \in P : a < q /\ q < a + Len(k)

\* The sum of the per-pair counts, each on the buffer the earlier pairs left.
RECURSIVE PairCounts(_, _)
PairCounts(s, lm) ==
    IF lm = <<>> THEN 0
    ELSE Cardinality(Selected(s, Head(lm).k))
         + PairCounts(StrReplace(s, Head(lm).k, Head(lm).v), Tail(lm))

RECURSIVE SumPairCounts(_)
SumPairCounts(S) ==
    IF S = {} THEN 0
    ELSE LET p == CHOOSE q \in S : TRUE
         IN PairCounts(Decode(fs_start[p].data), link_map)
            + SumPairCounts(S \ {p})

\* C10: the total is the sum, over the readable files scanned so far, of the
\* per-pair counts of non-overlapping occurrences on the running buffer; a
\* single pair and a single file holding the original twice give a total of
\* 2 and 1 modified file.
C10_TotalIsSumOfPairCounts ==
    /\ pc \in {"walk", "exited"} =>
          total_replacements_made =
             SumPairCounts({p \in Candidates \cap visited :
                               fs_start[p].kind = "text"})
    /\ (/\ WalkCompleted /\ Len(link_map) = 1
        /\ Candidates = {F1} /\ fs_start[F1].kind = "text"
        /\ Cardinality(Selected(fs_start[F1].data, link_map[1].k)) = 2
        /\ F1 \in written) =>
          /\ total_replacements_made = 2
          /\ total_files_changed = 1

\* One pair, one file with the original twice: rewritten, 2 substitutions.
C10_Witness ==
    /\ WalkCompleted
    /\ link_map = <<[k |-> <<"a">>, v |-> <<"b">>]>>
    /\ Candidates = {F1}
    /\ fs_start[F1].data = <<"a", "b", "a">>
    /\ fs[F1].data = <<"b", "b", "b">>
    /\ total_replacements_made = 2
    /\ total_files_changed = 1

=============================================================================
